---- MODULE Spec2Model ----
(***************************************************************************)
(* HashSet (src/hash.cpp): a set of ints kept in one std::list (allKeys)   *)
(* grouped by bucket, with a vector of list iterators (buckets), one per   *)
(* bucket, pointing at the first element of the bucket's run.              *)
(*                                                                         *)
(* A list iterator is modelled by the position of its node in allKeys      *)
(* (1..Len), and allKeys.end() by End.  std::list never invalidates an     *)
(* iterator of a node that stays in the list, so an insertion or removal   *)
(* in front of a node moves the position that stands for it (AfterInsert,  *)
(* AfterErase); an iterator to a removed node becomes Invalid.             *)
(***************************************************************************)
EXTENDS Integers, Sequences, FiniteSets, TLC

\* ---------------------------------------------------------------- bounds
\* the keys handed to the operations: -NegKeys..MaxKey
NegKeys == 1
MaxKey == 2
Keys == (-NegKeys)..MaxKey

\* width of the signed keys the bucket index is checked on:
\* -2^(IntBits-1) .. 2^(IntBits-1) - 1
IntBits == 5

\* keys of the "insert 8 distinct keys" scenario: 1..ScenarioKeys
ScenarioKeys == 9

\* Sizing tables the instance is built with (hash.hpp's `sizes`)
SizingTables == { <<2, 3, 5>>, <<7, 17>> }
ScenarioTable == <<7, 17>>

\* the copy scenario: table and keys -NegCopyKeys..MaxCopyKey
CopyTable == <<2, 3, 5>>
NegCopyKeys == 1
MaxCopyKey == 1
CopyKeys == (-NegCopyKeys)..MaxCopyKey

\* thresholds handed to maxLoadFactor(float), as exact fractions <<num, den>>
LoadChoices == { <<1, 2>>, <<1, 1>>, <<2, 1>> }

\* --------------------------------------------------------------- cursors
End == 0          \* allKeys.end() of the instance itself
Invalid == -2     \* iterator to a node that was removed from the list
Foreign == -1     \* past-the-end iterator of another list object

VARIABLES sizes, allKeys, buckets, countElements, maxLFactor,
          currentPrimeIndex, target, refSet, lastOp

\* sizes .. currentPrimeIndex: the static table and the members of the
\* instance the operations are called on; target: a second instance, the
\* one copies are made into; refSet: the keys whose latest insert/erase was
\* an insert; lastOp: the call made last.
vars == <<sizes, allKeys, buckets, countElements, maxLFactor,
          currentPrimeIndex, target, refSet, lastOp>>

\* the member fields of *this, as one value
This ==
  [ allKeys |-> allKeys, buckets |-> buckets, countElements |-> countElements,
    maxLFactor |-> maxLFactor, currentPrimeIndex |-> currentPrimeIndex ]

\* ------------------------------------------------------- list primitives
\* ++it
Succ(seq, it) == IF it = Len(seq) THEN End ELSE it + 1

\* std::list::insert(pos, key): the new sequence
ListInsert(seq, pos, key) ==
  IF pos = End THEN Append(seq, key)
  ELSE SubSeq(seq, 1, pos - 1) \o <<key>> \o SubSeq(seq, pos, Len(seq))

\* iterator returned by std::list::insert(pos, key)
InsertedAt(seq, pos) == IF pos = End THEN Len(seq) + 1 ELSE pos

\* what an iterator held before the insertion at pos stands for afterwards
AfterInsert(it, pos) ==
  IF it \in {End, Invalid, Foreign} THEN it
  ELSE IF pos # End /\ it >= pos THEN it + 1 ELSE it

\* std::list::erase(it): the new sequence
ListErase(seq, it) == SubSeq(seq, 1, it - 1) \o SubSeq(seq, it + 1, Len(seq))

\* what an iterator held before the removal of node `it` stands for afterwards
AfterErase(c, it) ==
  IF c \in {End, Invalid, Foreign} THEN c
  ELSE IF c = it THEN Invalid
  ELSE IF c > it THEN c - 1 ELSE c

\* std::distance(first, last) on two iterators of the same list
distance(first, last) == last - first

\* int % int of C++ (truncates towards zero)
CRem(a, b) == IF a >= 0 THEN a % b ELSE -((-a) % b)

\* ------------------------------------------------------------- observers
bucketCount(self) == Len(self.buckets)

\* bucket without the correction of a negative remainder
bucketRaw(self, key) == CRem(key, bucketCount(self))

bucket(self, key) ==
  LET mod == CRem(key, bucketCount(self))
  IN  IF mod < 0 THEN mod + bucketCount(self) ELSE mod

\* buckets[b]
Slot(self, b) == self.buckets[b + 1]

\* loadFactor() > v, for v = <<num, den>>
loadFactorExceeds(self, v) ==
  IF bucketCount(self) > 0
  THEN self.countElements * v[2] > v[1] * bucketCount(self)
  ELSE 0 > v[1]

RECURSIVE containsFrom(_, _, _, _)
containsFrom(self, enteredKey, key, b) ==
  IF enteredKey # End /\ bucket(self, self.allKeys[enteredKey]) = b
  THEN IF self.allKeys[enteredKey] = key THEN TRUE
       ELSE containsFrom(self, Succ(self.allKeys, enteredKey), key, b)
  ELSE FALSE

contains(self, key) ==
  LET b == bucket(self, key)
  IN  containsFrom(self, Slot(self, b), key, b)

\* find that looks at the head of the run only
findFromHeadOnly(self, findKey, key, b) ==
  IF findKey # End /\ bucket(self, self.allKeys[findKey]) = b
     /\ self.allKeys[findKey] = key
  THEN findKey
  ELSE End

\* find that returns the head of the key's bucket whatever its key
findFromAny(self, findKey, key, b) ==
  IF findKey # End /\ bucket(self, self.allKeys[findKey]) = b
  THEN findKey
  ELSE End

RECURSIVE findFrom(_, _, _, _)
findFrom(self, findKey, key, b) ==
  IF findKey # End /\ bucket(self, self.allKeys[findKey]) = b
  THEN IF self.allKeys[findKey] = key THEN findKey
       ELSE findFrom(self, Succ(self.allKeys, findKey), key, b)
  ELSE End

find(self, key) ==
  LET b == bucket(self, key)
  IN  findFrom(self, Slot(self, b), key, b)

\* runLength that counts to the end of the sequence
RECURSIVE runLengthToEnd(_, _, _)
runLengthToEnd(self, numKeys, b) ==
  IF numKeys # End
  THEN 1 + runLengthToEnd(self, Succ(self.allKeys, numKeys), b)
  ELSE 0

RECURSIVE runLength(_, _, _)
runLength(self, numKeys, b) ==
  IF numKeys # End /\ bucket(self, self.allKeys[numKeys]) = b
  THEN 1 + runLength(self, Succ(self.allKeys, numKeys), b)
  ELSE 0

bucketSize(self, b) ==
  IF b >= bucketCount(self) \/ Slot(self, b) = End THEN 0
  ELSE runLength(self, Slot(self, b), b)

\* ---------------------------------------------------------------- rehash
\* pickSize that takes the first entry strictly above the request
RECURSIVE pickSizeStrict(_, _, _, _)
pickSizeStrict(tbl, i, newSize, cur) ==
  IF i > Len(tbl) THEN <<tbl[Len(tbl)], cur>>
  ELSE IF tbl[i] > newSize THEN <<tbl[i], i - 1>>
  ELSE pickSizeStrict(tbl, i + 1, newSize, cur)

\* the loop of rehash that picks the new bucket count: <<newBCount, newPrimeIndex>>
RECURSIVE pickSize(_, _, _, _)
pickSize(tbl, i, newSize, cur) ==
  IF i > Len(tbl) THEN <<tbl[Len(tbl)], cur>>
  ELSE IF tbl[i] >= newSize THEN <<tbl[i], i - 1>>
  ELSE pickSize(tbl, i + 1, newSize, cur)

\* rehashBucket without the correction of a negative remainder
rehashBucketRaw(key, newBCount) == CRem(key, newBCount)

\* the bucket rehash computes for a key under the new bucket count
rehashBucket(key, newBCount) ==
  LET mod == CRem(key, newBCount)
  IN  IF mod < 0 THEN mod + newBCount ELSE mod

\* temp[b] after the first loop: the keys of bucket b in their old order
tempList(keys, newBCount, b) ==
  SelectSeq(keys, LAMBDA key : rehashBucket(key, newBCount) = b)

\* the splicing loop, from bucket b on
RECURSIVE spliceFrom(_, _, _, _)
spliceFrom(keys, newBCount, b, acc) ==
  IF b >= newBCount THEN acc
  ELSE LET t == tempList(keys, newBCount, b)
       IN  IF t # <<>>
           THEN spliceFrom(keys, newBCount, b + 1,
                  [ allKeys |-> acc.allKeys \o t,
                    buckets |-> [acc.buckets EXCEPT ![b + 1] = Len(acc.allKeys) + 1],
                    countElements |-> acc.countElements + Len(t) ])
           ELSE spliceFrom(keys, newBCount, b + 1, acc)

rehash(self, tbl, newSize) ==
  LET pick == pickSize(tbl, 1, newSize, self.currentPrimeIndex)
      newBCount == pick[1]
      newPrimeIndex == pick[2]
      cleared == [ allKeys |-> <<>>,
                   buckets |-> [i \in 1..newBCount |-> End],
                   countElements |-> 0 ]
      built == spliceFrom(self.allKeys, newBCount, 0, cleared)
  IN  [ allKeys |-> built.allKeys, buckets |-> built.buckets,
        countElements |-> built.countElements,
        maxLFactor |-> self.maxLFactor,
        currentPrimeIndex |-> newPrimeIndex ]

\* ---------------------------------------------------------------- insert
\* insert's rehash step
growIfNeeded(self, tbl) ==
  IF loadFactorExceeds(self, self.maxLFactor) /\ self.currentPrimeIndex + 1 < Len(tbl)
  THEN rehash(self, tbl, tbl[self.currentPrimeIndex + 2])
  ELSE self

\* runEnd that stays at the head of the run
runEndAtHead(self, pos, b) == pos

\* end of the run that starts at pos
RECURSIVE runEnd(_, _, _)
runEnd(self, pos, b) ==
  IF pos # End /\ bucket(self, self.allKeys[pos]) = b
  THEN runEnd(self, Succ(self.allKeys, pos), b)
  ELSE pos

\* first bucket from nextBucket on that is not empty (buckets.size() if none)
RECURSIVE nextNonEmpty(_, _)
nextNonEmpty(self, nextBucket) ==
  IF nextBucket < bucketCount(self) /\ Slot(self, nextBucket) = End
  THEN nextNonEmpty(self, nextBucket + 1)
  ELSE nextBucket

\* insertPos that appends a key of an empty bucket to the sequence
insertPosAtEnd(self, b) ==
  IF Slot(self, b) # End
  THEN runEnd(self, Slot(self, b), b)
  ELSE End

insertPos(self, b) ==
  IF Slot(self, b) # End
  THEN runEnd(self, Slot(self, b), b)
  ELSE LET nextBucket == nextNonEmpty(self, b + 1)
       IN  IF nextBucket < bucketCount(self) THEN Slot(self, nextBucket) ELSE End

\* place that leaves the element count alone
placeUncounted(self, key) ==
  LET b == bucket(self, key)
      pos == insertPos(self, b)
      newIt == InsertedAt(self.allKeys, pos)
      moved == [i \in 1..Len(self.buckets) |-> AfterInsert(self.buckets[i], pos)]
  IN  [ self EXCEPT
          !.allKeys = ListInsert(self.allKeys, pos, key),
          !.buckets = IF moved[b + 1] = End \/ distance(moved[b + 1], newIt) < 0
                      THEN [moved EXCEPT ![b + 1] = newIt]
                      ELSE moved ]

\* the part of insert after the rehash step
place(self, key) ==
  LET b == bucket(self, key)
      pos == insertPos(self, b)
      newIt == InsertedAt(self.allKeys, pos)
      moved == [i \in 1..Len(self.buckets) |-> AfterInsert(self.buckets[i], pos)]
  IN  [ self EXCEPT
          !.allKeys = ListInsert(self.allKeys, pos, key),
          !.buckets = IF moved[b + 1] = End \/ distance(moved[b + 1], newIt) < 0
                      THEN [moved EXCEPT ![b + 1] = newIt]
                      ELSE moved,
          !.countElements = self.countElements + 1 ]

\* insert without the duplicate check
insertAlways(self, tbl, key) == place(growIfNeeded(self, tbl), key)

\* insert that runs the rehash step before the duplicate check
insertGrowFirst(self, tbl, key) ==
  LET grown == growIfNeeded(self, tbl)
  IN  IF contains(grown, key) THEN grown ELSE place(grown, key)

insert(self, tbl, key) ==
  IF contains(self, key) THEN self
  ELSE place(growIfNeeded(self, tbl), key)

\* ----------------------------------------------------------------- erase
\* erase(Iterator) that empties the slot of a removed head
eraseItClearHead(self, it) ==
  IF it = End THEN self
  ELSE LET key == self.allKeys[it]
           b == bucket(self, key)
           retargeted ==
             IF Slot(self, b) = it
             THEN [self.buckets EXCEPT ![b + 1] = End]
             ELSE self.buckets
       IN  [ self EXCEPT
               !.allKeys = ListErase(self.allKeys, it),
               !.buckets = [i \in 1..Len(retargeted) |-> AfterErase(retargeted[i], it)],
               !.countElements = self.countElements - 1 ]

\* erase(Iterator) that moves the head to the next element whatever its bucket
eraseItAdvance(self, it) ==
  IF it = End THEN self
  ELSE LET key == self.allKeys[it]
           b == bucket(self, key)
           nextKey == Succ(self.allKeys, it)
           retargeted ==
             IF Slot(self, b) = it
             THEN [self.buckets EXCEPT ![b + 1] = nextKey]
             ELSE self.buckets
       IN  [ self EXCEPT
               !.allKeys = ListErase(self.allKeys, it),
               !.buckets = [i \in 1..Len(retargeted) |-> AfterErase(retargeted[i], it)],
               !.countElements = self.countElements - 1 ]

eraseIt(self, it) ==
  IF it = End THEN self
  ELSE LET key == self.allKeys[it]
           b == bucket(self, key)
           nextKey == Succ(self.allKeys, it)
           retargeted ==
             IF Slot(self, b) = it
             THEN IF nextKey # End /\ bucket(self, self.allKeys[nextKey]) = b
                  THEN [self.buckets EXCEPT ![b + 1] = nextKey]
                  ELSE [self.buckets EXCEPT ![b + 1] = End]
             ELSE self.buckets
       IN  [ self EXCEPT
               !.allKeys = ListErase(self.allKeys, it),
               !.buckets = [i \in 1..Len(retargeted) |-> AfterErase(retargeted[i], it)],
               !.countElements = self.countElements - 1 ]

\* iterator erase(Iterator) returns
eraseItResult(self, it) ==
  IF it = End THEN it
  ELSE IF it = Len(self.allKeys) THEN End ELSE it

eraseKey(self, key) ==
  LET eraseKeyIt == find(self, key)
  IN  IF eraseKeyIt # End THEN eraseIt(self, eraseKeyIt) ELSE self

\* --------------------------------------------------------- maxLoadFactor
\* searchSize that takes the next entry without testing its ratio
searchSizeNext(self, tbl, i) ==
  IF i >= Len(tbl) THEN self
  ELSE rehash(self, tbl, tbl[i + 1])

\* the search loop of the setter, from index i (0-based) on
RECURSIVE searchSize(_, _, _)
searchSize(self, tbl, i) ==
  IF i >= Len(tbl) THEN self
  ELSE IF self.countElements * self.maxLFactor[2] <= self.maxLFactor[1] * tbl[i + 1]
       THEN rehash(self, tbl, tbl[i + 1])
       ELSE searchSize(self, tbl, i + 1)

setMaxLoadFactor(self, tbl, maxLoad) ==
  LET stored == [self EXCEPT !.maxLFactor = maxLoad]
  IN  IF loadFactorExceeds(stored, stored.maxLFactor)
      THEN searchSize(stored, tbl, stored.currentPrimeIndex + 1)
      ELSE stored

\* ---------------------------------------------------------- construction
construct(tbl) ==
  [ allKeys |-> <<>>, buckets |-> [i \in 1..tbl[1] |-> End],
    countElements |-> 0, maxLFactor |-> <<1, 1>>, currentPrimeIndex |-> 0 ]

\* the rebuild loop of the copy constructor, from position it on
RECURSIVE rebuildFrom(_, _, _)
rebuildFrom(self, it, bk) ==
  IF it = End THEN bk
  ELSE LET b == bucket([self EXCEPT !.buckets = bk], self.allKeys[it])
       IN  rebuildFrom(self, Succ(self.allKeys, it),
                       IF bk[b + 1] = End THEN [bk EXCEPT ![b + 1] = it] ELSE bk)

\* HashSet(const HashSet& other)
copyConstruct(other) ==
  [ allKeys |-> other.allKeys,
    buckets |-> rebuildFrom(other,
                            IF other.allKeys = <<>> THEN End ELSE 1,
                            [i \in 1..Len(other.buckets) |-> End]),
    countElements |-> other.countElements,
    maxLFactor |-> other.maxLFactor,
    currentPrimeIndex |-> other.currentPrimeIndex ]

\* operator=(HashSet other): `other` is a copy of the right-hand side, made
\* by the copy constructor; its members are swapped into *this.  The empty
\* slots of other.buckets hold other.allKeys.end().  std::swap of two lists
\* leaves it to the library whether that iterator goes with the elements to
\* the list of *this (endFollows) or stays the past-the-end iterator of
\* other's list, an object that dies when operator= returns.
assign(self, rhs, endFollows) ==
  LET other == copyConstruct(rhs)
  IN  [ allKeys |-> other.allKeys,
        buckets |-> [i \in 1..Len(other.buckets) |->
                       IF other.buckets[i] = End /\ ~endFollows THEN Foreign
                       ELSE other.buckets[i]],
        maxLFactor |-> other.maxLFactor,
        currentPrimeIndex |-> other.currentPrimeIndex,
        countElements |-> other.countElements ]

\* ------------------------------------------------------------ the machine
\* requested sizes handed to rehash: around every entry of the table
RehashArgs(tbl) ==
  {0} \cup UNION { {tbl[i] - 1, tbl[i], tbl[i] + 1} : i \in 1..Len(tbl) }

\* the call just made, with size() and bucketCount() as they were before it
Called(op, arg) ==
  [op |-> op, arg |-> arg, preSize |-> countElements, preBuckets |-> Len(buckets)]

Become(self) ==
  /\ allKeys' = self.allKeys
  /\ buckets' = self.buckets
  /\ countElements' = self.countElements
  /\ maxLFactor' = self.maxLFactor
  /\ currentPrimeIndex' = self.currentPrimeIndex
  /\ UNCHANGED sizes

InitWith(tbl) ==
  /\ sizes = tbl
  /\ allKeys = construct(tbl).allKeys
  /\ buckets = construct(tbl).buckets
  /\ countElements = construct(tbl).countElements
  /\ maxLFactor = construct(tbl).maxLFactor
  /\ currentPrimeIndex = construct(tbl).currentPrimeIndex
  /\ target = construct(tbl)
  /\ refSet = {}
  /\ lastOp = [op |-> "construct", arg |-> 0, preSize |-> 0, preBuckets |-> tbl[1]]

Init == \E tbl \in SizingTables : InitWith(tbl)

Insert(k) ==
  /\ Become(insert(This, sizes, k))
  /\ UNCHANGED target
  /\ refSet' = refSet \cup {k}
  /\ lastOp' = Called("insert", k)

Erase(k) ==
  /\ Become(eraseKey(This, k))
  /\ UNCHANGED target
  /\ refSet' = refSet \ {k}
  /\ lastOp' = Called("erase", k)

\* erase(Iterator) with a cursor of this instance: a node or end()
EraseAt(it) ==
  /\ Become(eraseIt(This, it))
  /\ UNCHANGED target
  /\ refSet' = IF it = End THEN refSet ELSE refSet \ {allKeys[it]}
  /\ lastOp' = Called("eraseAt", it)

Rehash(n) ==
  /\ Become(rehash(This, sizes, n))
  /\ UNCHANGED target
  /\ UNCHANGED refSet
  /\ lastOp' = Called("rehash", n)

SetMaxLoadFactor(v) ==
  /\ Become(setMaxLoadFactor(This, sizes, v))
  /\ UNCHANGED target
  /\ UNCHANGED refSet
  /\ lastOp' = Called("maxLoadFactor", v)

Next ==
  \/ \E k \in Keys : Insert(k)
  \/ \E k \in Keys : Erase(k)
  \/ \E it \in {End} \cup (1..Len(allKeys)) : EraseAt(it)
  \/ \E n \in RehashArgs(sizes) : Rehash(n)
  \/ \E v \in LoadChoices : SetMaxLoadFactor(v)

Spec == Init /\ [][Next]_vars

\* HashSet target(*this): a new instance takes the place of target
CopyConstruct ==
  /\ target' = copyConstruct(This)
  /\ UNCHANGED <<sizes, allKeys, buckets, countElements, maxLFactor,
                 currentPrimeIndex, refSet>>
  /\ lastOp' = Called("copyConstruct", 0)

\* target = *this
CopyAssign ==
  /\ \E endFollows \in BOOLEAN : target' = assign(target, This, endFollows)
  /\ UNCHANGED <<sizes, allKeys, buckets, countElements, maxLFactor,
                 currentPrimeIndex, refSet>>
  /\ lastOp' = Called("copyAssign", 0)

\* an instance over one table and a few keys, and the copies made of it
InitCopy == InitWith(CopyTable)

NextCopy ==
  \/ \E k \in CopyKeys : Insert(k)
  \/ \E k \in CopyKeys : Erase(k)
  \/ \E n \in RehashArgs(sizes) : Rehash(n)
  \/ CopyConstruct
  \/ CopyAssign

SpecCopy == InitCopy /\ [][NextCopy]_vars

\* a fresh instance over the table <<7, 17>> that only sees inserts
InitScenario == InitWith(ScenarioTable)

NextScenario == \E k \in 1..ScenarioKeys : Insert(k)

SpecScenario == InitScenario /\ [][NextScenario]_vars

TypeOK ==
  /\ sizes \in SizingTables
  /\ \A i \in 1..Len(allKeys) : allKeys[i] \in Int
  /\ \A i \in 1..Len(buckets) : buckets[i] \in {End} \cup (1..Len(allKeys))
  /\ countElements \in Nat
  /\ maxLFactor \in LoadChoices
  /\ currentPrimeIndex \in 0..(Len(sizes) - 1)

\* ------------------------------------------------------------ vocabulary
\* the keys of the begin()..end() iteration
Iterated == { allKeys[i] : i \in 1..Len(allKeys) }

\* the keys contains() answers true for
Contained == { k \in Keys : contains(This, k) }

\* bucketIndex of the element at position i
BucketAt(i) == bucket(This, allKeys[i])

\* positions of the keys of bucket b
RunOf(b) == { i \in 1..Len(allKeys) : BucketAt(i) = b }

Min(S) == CHOOSE x \in S : \A y \in S : x <= y

LargestSize == sizes[Len(sizes)]

\* ---------------------------------------------------------------- claims
\* C1: contains(k) is true exactly for the keys whose most recent
\* insert/erase call was an insert, find(k) returns a cursor to k for exactly
\* those keys and end() for the others; contains(k) is true right after
\* insert(k) and false right after erase(k).
C1_SetSemantics ==
  /\ \A k \in Keys : contains(This, k) <=> k \in refSet
  /\ \A k \in Keys :
       IF k \in refSet
       THEN find(This, k) \in 1..Len(allKeys) /\ allKeys[find(This, k)] = k
       ELSE find(This, k) = End
  /\ lastOp.op = "insert" => contains(This, lastOp.arg)
  /\ lastOp.op = "erase" => ~contains(This, lastOp.arg)

\* an erase(k) that removed one of several keys of a grown table
C1_Witness ==
  /\ lastOp.op = "erase"
  /\ countElements = lastOp.preSize - 1
  /\ countElements >= 2
  /\ Len(buckets) > sizes[1]
  /\ ~contains(This, lastOp.arg)

\* C2: right after an insert that returns with a bucket count other than
\* the Sizing Table's largest entry, elementCount / bucketCount <= maxLoadFactor().
C2_LoadFactorBound ==
  (lastOp.op = "insert" /\ Len(buckets) # LargestSize)
    => ~loadFactorExceeds(This, maxLFactor)

\* C3: with table <<7, 17>> and max load factor 1.0, a fresh instance that
\* has taken 8 distinct inserts has 17 buckets.
C3_GrowOnEighthInsert ==
  Cardinality(refSet) = 8 => bucketCount(This) = 17

\* C4 (I4): buckets[b] is end() iff no key of the sequence has bucket index
\* b, and otherwise it is the cursor of the first element with bucket index b.
C4_BucketHeads ==
  \A b \in 0..(Len(buckets) - 1) :
    IF RunOf(b) = {} THEN Slot(This, b) = End
    ELSE Slot(This, b) = Min(RunOf(b))

\* two buckets hold runs, one of them of several keys, after an erase
C4_Witness ==
  /\ lastOp.op \in {"erase", "eraseAt"}
  /\ countElements < lastOp.preSize
  /\ \E b, c \in 0..(Len(buckets) - 1) :
       b # c /\ Cardinality(RunOf(b)) >= 2 /\ RunOf(c) # {}

\* C5 (I2/I3): a key iterated before another never has the larger bucket index.
C5_RunOrder ==
  \A i, j \in 1..Len(allKeys) : i < j => BucketAt(i) <= BucketAt(j)

\* an insert placed a key in front of keys of later buckets
C5_Witness ==
  /\ lastOp.op = "insert"
  /\ countElements = lastOp.preSize + 1
  /\ \E i \in 1..Len(allKeys) :
       /\ allKeys[i] = lastOp.arg
       /\ i < Len(allKeys)
       /\ BucketAt(i) < BucketAt(Len(allKeys))

\* C6: the tracked Sizing-Table index names the bucket count in use.
C6_IndexTracksCount ==
  sizes[currentPrimeIndex + 1] = bucketCount(This)

\* C7: after copy construction or copy assignment the target has the keys,
\* order, size, bucket count and max load factor of the source, and every
\* slot of its bucket table is the target's own end() or the cursor of the
\* first element of that bucket's run in the target's own sequence.
C7_CopyOwnsBuckets ==
  lastOp.op \in {"copyConstruct", "copyAssign"} =>
    /\ target.allKeys = allKeys
    /\ target.countElements = countElements
    /\ Len(target.buckets) = Len(buckets)
    /\ target.maxLFactor = maxLFactor
    /\ \A b \in 0..(Len(target.buckets) - 1) :
         LET run == { i \in 1..Len(target.allKeys) :
                        bucket(target, target.allKeys[i]) = b }
         IN  IF run = {} THEN Slot(target, b) = End
             ELSE Slot(target, b) = Min(run)

\* C8: rehash(n) leaves the contained keys, the keys of the sequence (each
\* with its number of occurrences) and size() as they were.
C8_RehashKeepsKeys ==
  [][ lastOp'.op = "rehash" =>
        /\ Contained' = Contained
        /\ countElements' = countElements
        /\ Len(allKeys') = Len(allKeys)
        /\ \A k \in Keys :
             Cardinality({ i \in 1..Len(allKeys') : allKeys'[i] = k })
               = Cardinality({ i \in 1..Len(allKeys) : allKeys[i] = k }) ]_vars

\* a rehash that changed the bucket count of a set of several keys
C8_Witness ==
  /\ lastOp.op = "rehash"
  /\ Len(buckets) # lastOp.preBuckets
  /\ countElements >= 3
  /\ \E k \in Iterated : k < 0

\* C9: after rehash(n) the bucket count is the smallest table entry >= n,
\* or the largest entry when there is none; it is always a table entry (I6).
C9_RehashTarget ==
  /\ lastOp.op = "rehash" =>
       LET fits == { i \in 1..Len(sizes) : sizes[i] >= lastOp.arg }
       IN  bucketCount(This) = IF fits = {} THEN LargestSize
                               ELSE Min({ sizes[i] : i \in fits })
  /\ \E i \in 1..Len(sizes) : sizes[i] = bucketCount(This)

\* a rehash beyond the table and a rehash to a middle entry
C9_Witness ==
  /\ lastOp.op = "rehash"
  /\ lastOp.arg > LargestSize
  /\ bucketCount(This) = LargestSize
  /\ lastOp.preBuckets < LargestSize
  /\ countElements >= 2

\* C10 (I1): no key occurs twice in the sequence.
C10_UniqueKeys ==
  \A i, j \in 1..Len(allKeys) : i # j => allKeys[i] # allKeys[j]

\* an insert of a key that was already present, in a set of several keys
C10_Witness ==
  /\ lastOp.op = "insert"
  /\ countElements = lastOp.preSize
  /\ countElements >= 3
  /\ lastOp.arg \in Iterated

\* the members of the instance
Members == <<allKeys, buckets, countElements, maxLFactor, currentPrimeIndex>>

\* C11 (I5): size() is the length of the sequence and the number of distinct
\* keys in the set, which is the number of keys whose latest insert/erase
\* was an insert; empty() holds iff that number is 0.
C11_ElementAccounting ==
  /\ countElements = Len(allKeys)
  /\ countElements = Cardinality(Iterated)
  /\ countElements = Cardinality(refSet)
  /\ (countElements = 0) <=> (refSet = {})

\* an insert added a key to a set that had seen an erase or a rehash
C11_Witness ==
  /\ lastOp.op = "insert"
  /\ countElements = lastOp.preSize + 1
  /\ countElements >= 3
  /\ Len(buckets) > lastOp.preBuckets

\* C12: insert(k) of a contained key changes no member, also when the load
\* factor is above the maximum and a larger table entry exists.
C12_DuplicateInsertNoOp ==
  [][ (lastOp'.op = "insert" /\ contains(This, lastOp'.arg))
        => UNCHANGED Members ]_vars

\* a duplicate insert into an overloaded table that could still grow
C12_Witness ==
  /\ lastOp.op = "insert"
  /\ countElements = lastOp.preSize
  /\ contains(This, lastOp.arg)
  /\ loadFactorExceeds(This, maxLFactor)
  /\ currentPrimeIndex + 1 < Len(sizes)
  /\ sizes[currentPrimeIndex + 1] = Len(buckets)

\* C13: maxLoadFactor(v) stores v; the bucket count stays if
\* elementCount / bucketCount <= v, otherwise it becomes the first table
\* entry s after the current bucket count with elementCount / s <= v, or
\* stays if there is none; the key set and size() stay.
C13_SetterPostcondition ==
  [][ lastOp'.op = "maxLoadFactor" =>
        LET v == lastOp'.arg
            exceeded == countElements * v[2] > v[1] * Len(buckets)
            fits == { i \in 1..Len(sizes) :
                        /\ sizes[i] > Len(buckets)
                        /\ countElements * v[2] <= v[1] * sizes[i] }
        IN  /\ maxLFactor' = v
            /\ Len(buckets') = IF exceeded /\ fits # {}
                               THEN sizes[Min(fits)] ELSE Len(buckets)
            /\ Contained' = Contained
            /\ Iterated' = Iterated
            /\ countElements' = countElements ]_vars

\* a lowered threshold that skipped a table entry
C13_Witness ==
  /\ lastOp.op = "maxLoadFactor"
  /\ Len(sizes) = 3
  /\ lastOp.preBuckets = sizes[1]
  /\ Len(buckets) = sizes[3]
  /\ countElements >= 2

RECURSIVE SumBucketSizes(_)
SumBucketSizes(b) ==
  IF b < 0 THEN 0 ELSE bucketSize(This, b) + SumBucketSizes(b - 1)

\* C14: bucketSize(b) is the number of iterated keys with bucket index b for
\* b < bucketCount and 0 for b >= bucketCount; the sizes add up to size().
C14_BucketAccounting ==
  /\ \A b \in 0..(Len(buckets) - 1) : bucketSize(This, b) = Cardinality(RunOf(b))
  /\ \A b \in Len(buckets)..(Len(buckets) + 2) : bucketSize(This, b) = 0
  /\ SumBucketSizes(Len(buckets) - 1) = countElements

\* a run of several keys followed by the run of a later bucket
C14_Witness ==
  \E b, c \in 0..(Len(buckets) - 1) :
    /\ b < c
    /\ bucketSize(This, b) >= 2
    /\ bucketSize(This, c) >= 1

\* C15: erase(k) of a key that is not contained changes no member, and
\* erase(end()) returns end() and changes no member.
C15_EraseAbsentNoOp ==
  [][ /\ (lastOp'.op = "erase" /\ ~contains(This, lastOp'.arg))
         => UNCHANGED Members
      /\ (lastOp'.op = "eraseAt" /\ lastOp'.arg = End)
         => (UNCHANGED Members /\ eraseItResult(This, End) = End) ]_vars

\* an erase of an absent key whose bucket holds other keys
C15_Witness ==
  /\ lastOp.op = "erase"
  /\ lastOp.arg \notin Iterated
  /\ countElements = lastOp.preSize
  /\ RunOf(bucket(This, lastOp.arg)) # {}

\* the signed keys of IntBits bits, the most negative one included
IntKeys == (-(2 ^ (IntBits - 1)))..(2 ^ (IntBits - 1) - 1)

\* C16: for every signed key k and the bucket count c in use, bucketIndex(k)
\* is in [0, c) and congruent to k modulo c; bucketIndex(-5) = 2 for c = 7;
\* rehash computes the same index for that bucket count.
C16_SignCorrectIndex ==
  /\ \A k \in IntKeys :
       /\ bucket(This, k) \in 0..(Len(buckets) - 1)
       /\ (k - bucket(This, k)) % Len(buckets) = 0
       /\ rehashBucket(k, Len(buckets)) = bucket(This, k)
  /\ Len(buckets) = 7 => bucket(This, -5) = 2

\* negative keys stored under a bucket count a rehash moved to
C16_Witness ==
  /\ lastOp.op = "rehash"
  /\ Len(buckets) # lastOp.preBuckets
  /\ \E i \in 1..Len(allKeys) :
       allKeys[i] < 0 /\ BucketAt(i) = Len(buckets) + allKeys[i]

\* C17: no call of insert, erase or the maxLoadFactor setter leaves
\* bucketCount() smaller than it was before the call.
C17_NoImplicitShrink ==
  lastOp.op \in {"insert", "erase", "eraseAt", "maxLoadFactor"}
    => Len(buckets) >= lastOp.preBuckets

Max(S) == CHOOSE x \in S : \A y \in S : x >= y

\* the sequence without its element at position p
Without(seq, p) == [i \in 1..(Len(seq) - 1) |-> IF i < p THEN seq[i] ELSE seq[i + 1]]

\* the key a slot value points at in a sequence ("none" for end())
Pointee(seq, c) == IF c = End THEN <<>> ELSE <<seq[c]>>

\* C18: an insert of a new key k that triggers no rehash, b = bucketIndex(k):
\* a non-empty bucket b gets k as the last element of its run and keeps its
\* slot; an empty bucket b gets k right before the head of the next
\* non-empty bucket above b (at the end if none) and its slot points at k.
\* The order of the other keys and every other slot stay.
C18_InsertPosition ==
  [][ ( /\ lastOp'.op = "insert"
        /\ ~contains(This, lastOp'.arg)
        /\ ~(loadFactorExceeds(This, maxLFactor)
             /\ currentPrimeIndex + 1 < Len(sizes)) )
      => LET k == lastOp'.arg
             b == bucket(This, k)
             later == { i \in 1..Len(allKeys) : BucketAt(i) > b }
             p == IF RunOf(b) # {} THEN Max(RunOf(b)) + 1
                  ELSE IF later # {} THEN Min(later)
                  ELSE Len(allKeys) + 1
         IN  /\ Len(allKeys') = Len(allKeys) + 1
             /\ allKeys'[p] = k
             /\ Without(allKeys', p) = allKeys
             /\ Len(buckets') = Len(buckets)
             /\ IF RunOf(b) # {}
                THEN Pointee(allKeys', buckets'[b + 1]) = Pointee(allKeys, buckets[b + 1])
                ELSE buckets'[b + 1] = p
             /\ \A c \in 0..(Len(buckets) - 1) :
                  c # b => Pointee(allKeys', buckets'[c + 1])
                             = Pointee(allKeys, buckets[c + 1]) ]_vars

\* an insert without rehash appended a key to a run that later runs follow
C18_Witness ==
  /\ lastOp.op = "insert"
  /\ countElements = lastOp.preSize + 1
  /\ Len(buckets) = lastOp.preBuckets
  /\ \E i \in 2..(Len(allKeys) - 1) :
       /\ allKeys[i] = lastOp.arg
       /\ BucketAt(i - 1) = BucketAt(i)
       /\ BucketAt(i + 1) > BucketAt(i)

\* C19: erase(cursor) of the element k at a valid cursor, b = bucketIndex(k):
\* exactly k goes, size() drops by one, the returned cursor is k's successor
\* (end() if k was last); the slot of b moves to the successor if k was the
\* head and the successor is in bucket b, becomes end() if k was the head
\* and it is not, and stays otherwise.  The other slots, the bucket count
\* and the order of the remaining keys stay.
C19_EraseCursor ==
  [][ (lastOp'.op = "eraseAt" /\ lastOp'.arg # End)
      => LET it == lastOp'.arg
             k == allKeys[it]
             b == bucket(This, k)
             ret == eraseItResult(This, it)
         IN  /\ allKeys' = Without(allKeys, it)
             /\ countElements' = countElements - 1
             /\ IF it = Len(allKeys) THEN ret = End
                ELSE Pointee(allKeys', ret) = <<allKeys[it + 1]>>
             /\ Len(buckets') = Len(buckets)
             /\ IF buckets[b + 1] = it
                THEN IF it < Len(allKeys) /\ BucketAt(it + 1) = b
                     THEN Pointee(allKeys', buckets'[b + 1]) = <<allKeys[it + 1]>>
                     ELSE buckets'[b + 1] = End
                ELSE Pointee(allKeys', buckets'[b + 1]) = Pointee(allKeys, buckets[b + 1])
             /\ \A c \in 0..(Len(buckets) - 1) :
                  c # b => Pointee(allKeys', buckets'[c + 1])
                             = Pointee(allKeys, buckets[c + 1]) ]_vars

\* an erase at a cursor removed the head of a run that had more keys
C19_Witness ==
  /\ lastOp.op = "eraseAt"
  /\ lastOp.arg # End
  /\ countElements = lastOp.preSize - 1
  /\ lastOp.arg <= Len(allKeys)
  /\ Slot(This, BucketAt(lastOp.arg)) = lastOp.arg
  /\ lastOp.arg > 1
====
